---- MODULE Spec2Model ----
(***************************************************************************)
(* The To-Do CRUD handlers of main.py as a state machine.                  *)
(*                                                                         *)
(* Every request is one handler invocation running on its own session      *)
(* (get_db).  Handlers of different requests interleave between their      *)
(* database interactions: the lookup (query ... first()), the commit and   *)
(* the refresh are separate steps, each atomic against the table.          *)
(*                                                                         *)
(* The ORM session behaves as sqlalchemy.orm.Session does:                 *)
(*   - commit() flushes an UPDATE that sets only the attributes whose      *)
(*     value differs from the value the session loaded; an UPDATE that     *)
(*     matches no row raises StaleDataError; with no changed attribute no  *)
(*     UPDATE is emitted;                                                  *)
(*   - a DELETE that matches no row is only warned about;                  *)
(*   - refresh() re-reads the row by primary key and raises                *)
(*     InvalidRequestError when the row is gone;                           *)
(*   - a deleted instance keeps the attribute values it had loaded.        *)
(***************************************************************************)
EXTENDS Integers, Sequences, FiniteSets, TLC

\* ------------------------------------------------------------------ bounds
MaxId == 2        \* rows ever inserted
MaxPage == 2      \* largest explicit skip / limit tried

\* ------------------------------------------------------- program constants
DefaultSkip == 0
DefaultLimit == 10

Ids == 1..MaxId

\* The sessions that can be alive at once: no more than two handlers run at
\* the same time, and the number of requests served is not bounded.
Sessions == {"s1", "s2"}

None == "null"
NoRow == [none |-> TRUE]
NoBody == [nobody |-> TRUE]
Fields == {"title", "description", "completed"}

\* Request bodies as sent on the wire: a field that is omitted is not in the
\* record's domain.
Bodies ==
  { [title |-> "a"],
    [title |-> "b", description |-> "d", completed |-> TRUE] }

\* TodoCreate / TodoUpdate (.dict()): title required, description optional
\* (default None), completed optional (default False).
TodoDict(body) ==
  [title |-> body.title,
   description |-> IF "description" \in DOMAIN body THEN body.description ELSE None,
   completed |-> IF "completed" \in DOMAIN body THEN body.completed ELSE FALSE]

\* The response shape (schemas.Todo) of a stored row.
TodoSchema(id, row) ==
  [id |-> id, title |-> row.title, description |-> row.description,
   completed |-> row.completed]

VARIABLES
  rows,      \* the todos table: id -> row or NoRow
  nextId,    \* the next primary key the table assigns
  req,       \* the requests in flight: each handler's position, arguments, locals
  open,      \* sessions that are open
  issued,    \* history: the ids given to new rows, in order
  deleted,   \* history: the ids a delete_todo has removed
  lastCreated, \* history: the response of a create_todo, while its return is
             \* the latest database step
  exited     \* history: per closed session, how its handler had ended

vars == <<rows, nextId, req, open, issued, deleted, lastCreated, exited>>

Idle ==
  [kind |-> "none", pc |-> "idle", db |-> "none", todo_id |-> 0, body |-> NoBody,
   skip |-> 0, limit |-> 0, db_todo |-> NoRow, resp |-> NoRow, items |-> <<>>,
   outcome |-> "pending", detail |-> "",
   \* history fields, read by no handler
   absentAtLookup |-> FALSE, deletedAtLookup |-> FALSE, touched |-> {},
   added |-> 0, stored |-> {}, committed |-> NoRow, atRefresh |-> NoRow,
   intPre |-> FALSE, intPost |-> FALSE, after |-> NoRow]

Init ==
  /\ rows = [i \in Ids |-> NoRow]
  /\ nextId = 1
  /\ req = {}
  /\ open = {}
  /\ issued = <<>>
  /\ deleted = {}
  /\ lastCreated = NoRow
  /\ exited = [s \in Sessions |-> "none"]

\* ---------------------------------------------------------------- helpers
Max(a, b) == IF a > b THEN a ELSE b
Min(a, b) == IF a < b THEN a ELSE b

Present(table) == {i \in Ids : table[i] # NoRow}

\* History: the ids whose row differs between two states of the table.
Touched(old, new) == {i \in Ids : old[i] # new[i]}

\* History: request w committed a change to row x; every other request that
\* is working on x between its own database steps has been interfered with.
Interfere(rq, w, x, changed) ==
  { IF q.db # w /\ changed /\ q.todo_id = x /\ q.pc = "commit"
      THEN [q EXCEPT !.intPre = TRUE]
    ELSE IF q.db # w /\ changed /\ q.todo_id = x /\ q.pc = "refresh"
      THEN [q EXCEPT !.intPost = TRUE]
    ELSE q : q \in rq }

\* The requests in flight with request r at its next position.
Put(r, next) == (req \ {r}) \cup {next}

\* database.SessionLocal(): every call makes a new session, an object that is
\* none of the sessions still open.
SessionLocal(sessions) == CHOOSE s \in Sessions : s \notin sessions

\* db.close() placed after the yield with no finally: skipped when the
\* handler raises.
CloseSessionOnReturn(sessions, s, outcome) ==
  IF outcome = "ok" THEN sessions \ {s} ELSE sessions

\* db.close() in get_db's finally clause: runs whatever the handler's outcome.
CloseSession(sessions, s, outcome) == sessions \ {s}

\* A rowid taken as one more than the largest id stored.
AssignIdMaxPlusOne(table, n) ==
  IF \A i \in Ids : table[i] = NoRow THEN 1
  ELSE 1 + (CHOOSE i \in Ids : table[i] # NoRow /\ \A j \in Ids : table[j] # NoRow => j <= i)

\* The primary key the table gives a new row: the ids are never given twice.
AssignId(table, n) == n

\* db.add(TodoModel(**todo.dict())); db.commit(): INSERT one row.
InsertRow(table, id, body) == [table EXCEPT ![id] = TodoDict(body)]

\* The query with its filter left out: the first row stored.
QueryFirstUnfiltered(table, todo_id) ==
  IF \A i \in Ids : table[i] = NoRow THEN NoRow
  ELSE table[CHOOSE i \in Ids : table[i] # NoRow /\ \A j \in Ids : table[j] # NoRow => i <= j]

\* db.query(TodoModel).filter(TodoModel.id == todo_id).first()
QueryFirst(table, todo_id) ==
  IF todo_id \in Ids THEN table[todo_id] ELSE NoRow

\* A partial patch: only the fields the body carries are assigned.
SetAttrsPatch(db_todo, body) ==
  [f \in Fields |-> IF f \in DOMAIN body THEN body[f] ELSE db_todo[f]]

\* for key, value in todo.dict().items(): setattr(db_todo, key, value)
SetAttrs(db_todo, body) == TodoDict(body)

\* The attributes the session finds modified at flush: those whose value is
\* not the value that was loaded.
Dirty(loaded, attrs) == {f \in Fields : attrs[f] # loaded[f]}

\* db.commit() of a modified instance: UPDATE todos SET <dirty columns>
\* WHERE id = :id, applied to the row as it is stored now.
FlushUpdate(row, loaded, attrs) ==
  [f \in Fields |-> IF f \in Dirty(loaded, attrs) THEN attrs[f] ELSE row[f]]

\* db.delete(db_todo) with the commit missing: nothing is removed.
DeleteRowUncommitted(table, id) == table

\* A DELETE with no WHERE clause.
DeleteRowAll(table, id) == [i \in Ids |-> NoRow]

\* db.delete(db_todo); db.commit(): DELETE FROM todos WHERE id = :id
DeleteRow(table, id) == [table EXCEPT ![id] = NoRow]

\* The refresh left out: the instance keeps the attributes set on it.
RefreshRowSkipped(table, id, attrs) == attrs

\* db.refresh(db_todo): SELECT the row by primary key.
RefreshRow(table, id, attrs) == table[id]

\* The orders in which an unordered scan may return the stored rows.
Scans(table) ==
  LET p == Present(table)
      n == Cardinality(p)
  IN {s \in [1..n -> p] : \A i, j \in 1..n : i # j => s[i] # s[j]}

\* .offset(skip).limit(limit).all() over a scan.  skip and limit reach the
\* statement as they came in; the listing raises no error, and the engine
\* (SQLite) reads a negative OFFSET as 0 and a negative LIMIT as no limit.
OffsetLimit(scan, skip, limit) ==
  LET n == Len(scan)
      from == Max(skip, 0) + 1
      to == IF limit < 0 THEN n ELSE Min(n, Max(skip, 0) + limit)
  IN [k \in 1..Max(to - from + 1, 0) |-> scan[from + k - 1]]

\* ------------------------------------------------------------- get_db
PageVals == (0 - 1)..MaxPage

CreateCalls ==
  [kind : {"create"}, todo_id : {0}, body : Bodies, skip : {0}, limit : {0}]
ListCalls(skips, limits) ==
  [kind : {"list"}, todo_id : {0}, body : {NoBody}, skip : skips, limit : limits]
IdCalls(kinds) ==
  [kind : kinds, todo_id : Ids, body : {NoBody}, skip : {0}, limit : {0}]
UpdateCalls ==
  [kind : {"update"}, todo_id : Ids, body : Bodies, skip : {0}, limit : {0}]

\* The requests clients send; listings use the default skip and limit.
Calls ==
  CreateCalls \cup ListCalls({DefaultSkip}, {DefaultLimit})
  \cup IdCalls({"read", "delete"}) \cup UpdateCalls

\* The requests of a client paging through the store.
PagedCalls ==
  CreateCalls \cup IdCalls({"delete"})
  \cup ListCalls(PageVals, PageVals \cup {DefaultLimit})

FirstPc(kind) ==
  CASE kind = "create" -> "commit"
    [] OTHER -> "lookup"

\* A request arrives: get_db makes its session and yields it to the handler.
Arrive(calls) ==
  /\ Sessions \ open # {}
  /\ \E c \in calls :
       req' = req \cup
                {[Idle EXCEPT !.kind = c.kind, !.todo_id = c.todo_id,
                              !.body = c.body, !.skip = c.skip, !.limit = c.limit,
                              !.db = SessionLocal(open), !.pc = FirstPc(c.kind)]}
  /\ open' = open \cup {SessionLocal(open)}
  /\ exited' = [exited EXCEPT ![SessionLocal(open)] = "none"]
  /\ UNCHANGED <<rows, nextId, issued, deleted, lastCreated>>

GetDbYield == Arrive(Calls)

GetDbYieldPaged == req = {} /\ Arrive(PagedCalls)

\* finally: db.close()
GetDbFinally(r) ==
  /\ r.pc = "finished"
  /\ open' = CloseSession(open, r.db, r.outcome)
  /\ req' = req \ {r}
  /\ exited' = [exited EXCEPT ![r.db] = r.outcome]
  /\ UNCHANGED <<rows, nextId, issued, deleted, lastCreated>>

\* -------------------------------------------------------------- handlers
\* Returning None with no error, instead of raising.
ReturnNone(rec) == [rec EXCEPT !.outcome = "ok", !.pc = "finished"]

\* raise HTTPException(status_code=404, detail="Todo not found")
Raise404(rec) ==
  [rec EXCEPT !.outcome = "404", !.detail = "Todo not found", !.pc = "finished"]

\* An exception of the persistence layer leaves the handler: the framework
\* answers 500.
Raise500(rec) == [rec EXCEPT !.outcome = "500", !.pc = "finished"]

\* create_todo, lines 31-33: build the instance, add it, commit.
CreateCommit(r) ==
  /\ r.kind = "create" /\ r.pc = "commit"
  /\ nextId <= MaxId
  /\ LET id == AssignId(rows, nextId)
         table == InsertRow(rows, id, r.body)
         me == [r EXCEPT !.todo_id = id, !.pc = "refresh",
                              !.touched = @ \cup Touched(rows, table),
                              !.added = Cardinality(Present(table) \ Present(rows)),
                              !.committed = table[id]]
     IN /\ rows' = table
        /\ req' = Interfere(Put(r, me), r.db, id, TRUE)
        /\ issued' = Append(issued, id)
  /\ nextId' = nextId + 1
  /\ lastCreated' = NoRow
  /\ UNCHANGED <<open, deleted, exited>>

\* create_todo, lines 34-35: refresh the instance and return it.
CreateRefresh(r) ==
  /\ r.kind = "create" /\ r.pc = "refresh"
  /\ LET row == RefreshRow(rows, r.todo_id, TodoDict(r.body))
         me == IF row = NoRow THEN Raise500(r)
               ELSE [r EXCEPT !.resp = TodoSchema(r.todo_id, row),
                                   !.atRefresh = rows[r.todo_id],
                                   !.outcome = "ok", !.pc = "finished"]
     IN /\ req' = Put(r, me)
        /\ lastCreated' = me.resp
  /\ UNCHANGED <<rows, nextId, open, issued, deleted, exited>>

\* read_todos, lines 48-49.
ReadTodos(r) ==
  /\ r.kind = "list" /\ r.pc = "lookup"
  /\ \E scan \in Scans(rows) :
       req' = Put(r,
                 [r EXCEPT !.items =
                             LET ids == OffsetLimit(scan, r.skip, r.limit)
                             IN [k \in 1..Len(ids) |-> TodoSchema(ids[k], rows[ids[k]])],
                           !.stored = Present(rows),
                           !.outcome = "ok", !.pc = "finished"])
  /\ lastCreated' = NoRow
  /\ UNCHANGED <<rows, nextId, open, issued, deleted, exited>>

\* History: the response of the create_todo of id that has just returned.
JustCreated(id) ==
  IF lastCreated # NoRow /\ lastCreated.id = id THEN lastCreated ELSE NoRow

\* read_todo, lines 61-64.
ReadTodo(r) ==
  /\ r.kind = "read" /\ r.pc = "lookup"
  /\ LET todo == QueryFirst(rows, r.todo_id)
         seen == [r EXCEPT !.absentAtLookup = (rows[r.todo_id] = NoRow),
                                !.deletedAtLookup = (r.todo_id \in deleted),
                                !.after = JustCreated(r.todo_id)]
     IN req' = Put(r,
                  IF todo = NoRow THEN Raise404(seen)
                  ELSE [seen EXCEPT !.resp = TodoSchema(r.todo_id, todo),
                                    !.outcome = "ok", !.pc = "finished"])
  /\ lastCreated' = NoRow
  /\ UNCHANGED <<rows, nextId, open, issued, deleted, exited>>

\* update_todo, lines 77-79.
UpdateLookup(r) ==
  /\ r.kind = "update" /\ r.pc = "lookup"
  /\ LET db_todo == QueryFirst(rows, r.todo_id)
         seen == [r EXCEPT !.absentAtLookup = (rows[r.todo_id] = NoRow)]
     IN req' = Put(r,
                  IF db_todo = NoRow THEN Raise404(seen)
                  ELSE [seen EXCEPT !.db_todo = db_todo, !.pc = "commit"])
  /\ lastCreated' = NoRow
  /\ UNCHANGED <<rows, nextId, open, issued, deleted, exited>>

\* update_todo, lines 81-84: overwrite every attribute, commit.
UpdateCommit(r) ==
  /\ r.kind = "update" /\ r.pc = "commit"
  /\ LET id == r.todo_id
         attrs == SetAttrs(r.db_todo, r.body)
         dirty == Dirty(r.db_todo, attrs)
         stale == dirty # {} /\ rows[id] = NoRow
         table == IF dirty = {} \/ stale THEN rows
                  ELSE [rows EXCEPT ![id] = FlushUpdate(rows[id], r.db_todo, attrs)]
         me == IF stale THEN Raise500(r)
               ELSE [r EXCEPT !.pc = "refresh",
                                   !.touched = @ \cup Touched(rows, table),
                                   !.committed = table[id]]
     IN /\ rows' = table
        /\ req' = Interfere(Put(r, me), r.db, id, table # rows)
  /\ lastCreated' = NoRow
  /\ UNCHANGED <<nextId, open, issued, deleted, exited>>

\* update_todo, lines 85-86: refresh the instance and return it.
UpdateRefresh(r) ==
  /\ r.kind = "update" /\ r.pc = "refresh"
  /\ LET row == RefreshRow(rows, r.todo_id, SetAttrs(r.db_todo, r.body))
     IN req' = Put(r,
                  IF row = NoRow THEN Raise500(r)
                  ELSE [r EXCEPT !.resp = TodoSchema(r.todo_id, row),
                                 !.atRefresh = rows[r.todo_id],
                                 !.outcome = "ok", !.pc = "finished"])
  /\ lastCreated' = NoRow
  /\ UNCHANGED <<rows, nextId, open, issued, deleted, exited>>

\* delete_todo, lines 98-100.
DeleteLookup(r) ==
  /\ r.kind = "delete" /\ r.pc = "lookup"
  /\ LET db_todo == QueryFirst(rows, r.todo_id)
         seen == [r EXCEPT !.absentAtLookup = (rows[r.todo_id] = NoRow)]
     IN req' = Put(r,
                  IF db_todo = NoRow THEN Raise404(seen)
                  ELSE [seen EXCEPT !.db_todo = db_todo, !.pc = "commit"])
  /\ lastCreated' = NoRow
  /\ UNCHANGED <<rows, nextId, open, issued, deleted, exited>>

\* delete_todo, lines 102-104: delete, commit, return the instance as loaded.
DeleteCommit(r) ==
  /\ r.kind = "delete" /\ r.pc = "commit"
  /\ LET id == r.todo_id
         table == DeleteRow(rows, id)
         me == [r EXCEPT !.resp = TodoSchema(id, r.db_todo),
                              !.touched = @ \cup Touched(rows, table),
                              !.committed = rows[id],
                              !.outcome = "ok", !.pc = "finished"]
     IN /\ rows' = table
        /\ req' = Interfere(Put(r, me), r.db, id, table # rows)
        /\ deleted' = deleted \cup {id}
  /\ lastCreated' = NoRow
  /\ UNCHANGED <<nextId, open, issued, exited>>

Next ==
  \/ GetDbYield
  \/ \E r \in req : CreateCommit(r)
  \/ \E r \in req : CreateRefresh(r)
  \/ \E r \in req : ReadTodos(r)
  \/ \E r \in req : ReadTodo(r)
  \/ \E r \in req : UpdateLookup(r)
  \/ \E r \in req : UpdateCommit(r)
  \/ \E r \in req : UpdateRefresh(r)
  \/ \E r \in req : DeleteLookup(r)
  \/ \E r \in req : DeleteCommit(r)
  \/ \E r \in req : GetDbFinally(r)

Spec == Init /\ [][Next]_vars

\* A client pages through a store that its creates and deletes are changing,
\* one request at a time.
NextPaging ==
  \/ GetDbYieldPaged
  \/ \E r \in req : CreateCommit(r)
  \/ \E r \in req : CreateRefresh(r)
  \/ \E r \in req : DeleteLookup(r)
  \/ \E r \in req : DeleteCommit(r)
  \/ \E r \in req : ReadTodos(r)
  \/ \E r \in req : GetDbFinally(r)

SpecPaging == Init /\ [][NextPaging]_vars

\* ----------------------------------------------------------------- claims
Returned(kinds) ==
  {r \in req : r.kind \in kinds /\ r.pc = "finished" /\ r.outcome = "ok"}

\* C1: the session get_db makes for a request is closed once its handler has
\* finished, on every exit path, so the open sessions are exactly those of the
\* requests still in flight (none when no request is in flight), and no two
\* requests in flight use the same session.
C1_SessionReleased ==
  /\ open = {r.db : r \in req}
  /\ \A r1, r2 \in req : r1.db = r2.db => r1 = r2
  /\ req = {} => open = {}

\* No request is in flight and no session is open, after handlers that
\* returned (a delete_todo among them), one that raised the 404 and one that
\* ended in a persistence failure; the sessions of the last two were closed.
C1_Witness ==
  /\ req = {} /\ open = {} /\ deleted # {}
  /\ {exited[s] : s \in Sessions} = {"404", "500"}

\* C2: the id given to a new row differs from every id given before, also
\* from the ids of rows deleted since, and it is the id create_todo returns.
C2_IdsNeverReused ==
  /\ \A i, j \in 1..Len(issued) : i # j => issued[i] # issued[j]
  /\ \A r \in Returned({"create"}) :
       r.resp.id = r.todo_id /\ \E i \in 1..Len(issued) : issued[i] = r.resp.id

\* A create_todo returns after the row created before it was deleted.
C2_Witness ==
  \E r \in Returned({"create"}) :
    Len(issued) = 2 /\ issued[1] \in deleted /\ r.resp.id = issued[2]

\* C3: a read_todo of the id a create_todo has just returned, with no
\* database step in between, returns the create's response, field by field.
C3_RoundTrip ==
  \A r \in req :
    (r.kind = "read" /\ r.pc = "finished" /\ r.after # NoRow)
      => r.outcome = "ok" /\ r.resp = r.after

\* Such a read has returned a row created with non-default fields, the second
\* row of the store.
C3_Witness ==
  \E r \in Returned({"read"}) :
    r.after # NoRow /\ r.resp.completed /\ r.resp.description = "d" /\ r.resp.id = 2

\* C4 as stated: right after the commit of an update_todo whose row is
\* present, the stored fields are the fields of the update input, defaults
\* included.
C4_FullReplace ==
  \A r \in req :
    (r.kind = "update" /\ r.pc = "refresh" /\ r.committed # NoRow)
      => r.committed = TodoDict(r.body)

\* C4 as amended: the same, for an update_todo between whose lookup and commit
\* no other request committed a change to the row; and the update changes no
\* row under another id.
C4_FullReplaceUndisturbed ==
  \A r \in req :
    (r.kind = "update" /\ r.pc = "refresh")
      => /\ r.touched \subseteq {r.todo_id}
         /\ ~r.intPre => r.committed = TodoDict(r.body)

\* An undisturbed update that omits description and completed has reset both
\* of a row that held other values.
C4_Witness ==
  \E r \in req :
    /\ r.kind = "update" /\ r.pc = "refresh" /\ ~r.intPre
    /\ DOMAIN r.body = {"title"}
    /\ r.db_todo.completed /\ r.db_todo.description = "d"
    /\ ~r.committed.completed /\ r.committed.description = None

\* C5: an id whose delete_todo has succeeded has no row ever after, and every
\* read_todo of it that looks it up afterwards ends with the 404.
C5_DeletedStaysAbsent ==
  /\ \A i \in deleted : rows[i] = NoRow
  /\ \A r \in req :
       (r.kind = "read" /\ r.pc = "finished" /\ r.deletedAtLookup)
         => r.outcome = "404"

\* A read_todo of a deleted id has ended while a row created later is stored.
C5_Witness ==
  \E r \in req :
    /\ r.kind = "read" /\ r.pc = "finished" /\ r.deletedAtLookup
    /\ \E i \in Present(rows) : i > r.todo_id

NoDuplicates(items) ==
  \A i, j \in 1..Len(items) : i # j => items[i].id # items[j].id

\* C6 as stated: for every skip and limit read_todos accepts, the listing
\* raises no error, has at most min(limit, max(0, N - skip)) items of the N
\* stored (no item when that bound is negative), each of them a stored item,
\* none twice.
C6_SkipLimit ==
  \A r \in req :
    (r.kind = "list" /\ r.pc = "finished")
      => /\ r.outcome = "ok"
         /\ Len(r.items) <= Max(0, Min(r.limit, Max(0, Cardinality(r.stored) - r.skip)))
         /\ \A k \in 1..Len(r.items) : r.items[k].id \in r.stored
         /\ NoDuplicates(r.items)

\* The same for skip >= 0 and limit >= 0, which is what the code does.
C6_SkipLimitNonNegative ==
  \A r \in req :
    (r.kind = "list" /\ r.pc = "finished" /\ r.skip >= 0 /\ r.limit >= 0)
      => /\ r.outcome = "ok"
         /\ Len(r.items) = Min(r.limit, Max(0, Cardinality(r.stored) - r.skip))
         /\ \A k \in 1..Len(r.items) : r.items[k].id \in r.stored
         /\ NoDuplicates(r.items)

\* C7: read_todo, update_todo and delete_todo of an id that has no row end
\* with the 404 "Todo not found", having changed and added no row.
C7_NotFound ==
  \A r \in req :
    (r.kind \in {"read", "update", "delete"} /\ r.absentAtLookup)
      => /\ r.pc = "finished" /\ r.outcome = "404" /\ r.detail = "Todo not found"
         /\ r.touched = {} /\ r.added = 0

\* An update_todo of an absent id has ended while another row is stored.
C7_Witness ==
  \E r \in req :
    r.kind = "update" /\ r.absentAtLookup /\ r.outcome = "404" /\ Present(rows) # {}

\* C8 as stated: an update_todo ends with the 404 or with a successful
\* response, whatever a concurrent delete_todo of the same id does.
C8_UpdateOutcomes ==
  \A r \in req :
    (r.kind = "update" /\ r.pc = "finished") => r.outcome \in {"404", "ok"}

\* C9 as stated: the response of a mutating handler is the row its commit
\* stored (create, update) or the row its commit removed (delete).
C9_ResponseIsCommitted ==
  \A r \in Returned({"create", "update", "delete"}) :
    r.committed # NoRow /\ r.resp = TodoSchema(r.todo_id, r.committed)

\* C9 as amended: the commit comes before the response; create_todo and
\* update_todo return the row as the refresh after the commit read it, and
\* delete_todo returns the row as its lookup read it; either is the row the
\* commit stored or removed when no other request committed a change to the
\* row in between.
C9_ResponseIsReadBack ==
  /\ \A r \in Returned({"create", "update"}) :
       /\ r.committed # NoRow /\ r.atRefresh # NoRow
       /\ r.resp = TodoSchema(r.todo_id, r.atRefresh)
       /\ ~r.intPost => r.resp = TodoSchema(r.todo_id, r.committed)
  /\ \A r \in Returned({"delete"}) :
       /\ r.resp = TodoSchema(r.todo_id, r.db_todo)
       /\ ~r.intPre => (r.committed # NoRow /\ r.resp = TodoSchema(r.todo_id, r.committed))

\* An update_todo has returned a row another request changed after the
\* update's commit.
C9_Witness ==
  \E r \in Returned({"update"}) :
    r.intPost /\ r.resp # TodoSchema(r.todo_id, r.committed)

\* C10: read_todo and read_todos change no row; update_todo and delete_todo
\* change no row but the one of their id and add none; create_todo adds one
\* row and changes no other.
C10_Frame ==
  \A r \in req :
    /\ r.kind \in {"read", "list"} => (r.touched = {} /\ r.added = 0)
    /\ r.kind \in {"update", "delete"} => (r.touched \subseteq {r.todo_id} /\ r.added = 0)
    /\ (r.kind = "create" /\ r.pc # "commit") => (r.touched = {r.todo_id} /\ r.added = 1)

\* A delete_todo has removed its row while another row is stored.
C10_Witness ==
  \E r \in Returned({"delete"}) :
    r.touched = {r.todo_id} /\ Present(rows) # {}
====
